---- MODULE Spec2Model ----
(***************************************************************************)
(* Model of evaluation/dataset.py: the evaluation datasets of GLM-130B.    *)
(*   pad_batch, GenerationTaskDataset, MultiChoiceTaskDataset and          *)
(*   LanguageModelTaskDataset.                                             *)
(* Python lists and numpy arrays are sequences (index 1 is Python index 0).*)
(***************************************************************************)
EXTENDS Integers, Sequences, FiniteSets, TLC

VARIABLES
    task,              \* class of the dataset object: "gen", "mc" or "lm"
    config,            \* self.config (the fields dataset.py reads)
    pc,                \* where the object is in its life
    file,              \* the input: parsed lines (gen, mc) or tokenized documents (lm)
    pos,               \* number of lines / paths already consumed by __init__
    data,              \* self.data
    is_single_token,   \* MultiChoiceTaskDataset.is_single_token
    weights,           \* LanguageModelTaskDataset.weights
    left_weights,      \* LanguageModelTaskDataset.left_weights
    samples,           \* argument of the last collate_fn call
    batch,             \* value returned by the last collate_fn call
    result             \* outcome of the last __getitem__ call

vars == <<task, config, pc, file, pos, data, is_single_token, weights,
          left_weights, samples, batch, result>>

(***************************************************************************)
(* Bounds of the model.                                                    *)
(***************************************************************************)
MaxTokLen == 33        \* longest materialized sample handed to collate_fn
MaxBatch == 2          \* largest group of samples handed to collate_fn
MaxSeqLength == 4      \* largest config.max_seq_length
MaxGenLength == 3      \* largest config.generation_length / config.max_gen_length
MaxDocLen == 5         \* longest tokenized document
MaxDocs == 2           \* largest number of paths of a language-model dataset
MaxTextLen == 3        \* longest input text of a generation record
MaxLines == 2          \* largest number of lines of a jsonlines file

(***************************************************************************)
(* Program constants.                                                      *)
(***************************************************************************)
TILE == 32
MaskId == 50           \* self.mask_id = tokenizer.get_command("[MASK]")

(***************************************************************************)
(* Python and numpy primitives used by the code.                           *)
(***************************************************************************)
Min2(a, b) == IF a < b THEN a ELSE b

Max2(a, b) == IF a > b THEN a ELSE b

\* max(map(len, xs)) over a non-empty list of lengths
RECURSIVE MaxOf(_)
MaxOf(xs) ==
    IF Len(xs) = 1 THEN xs[1] ELSE Max2(xs[1], MaxOf(Tail(xs)))

\* a slice index as Python normalises it for a list of length n
SliceIndex(i, n) == IF i < 0 THEN Max2(i + n, 0) ELSE Min2(i, n)

\* s[a:b]
PySlice(s, a, b) ==
    LET lo == SliceIndex(a, Len(s))
        hi == SliceIndex(b, Len(s))
    IN  IF lo >= hi THEN << >> ELSE SubSeq(s, lo + 1, hi)

\* np.zeros(n)
Zeros(n) == [i \in 1..n |-> 0]

\* faulty variant: keeps the values of the slice instead of zeroing them
ZerosLikeMutantKeep(a) == a

\* np.zeros_like(a)
ZerosLike(a) == [i \in 1..Len(a) |-> 0]

\* a[..., -1:] for a one-dimensional array
LastSlice(a) == PySlice(a, -1, Len(a))

\* a.repeat(k, -1): every element repeated k times in place
RepeatEach(a, k) == [i \in 1..(Len(a) * k) |-> a[((i - 1) \div k) + 1]]

(***************************************************************************)
(* pad_batch                                                               *)
(***************************************************************************)
pad_batch(tokens, position_ids, attention_mask, max_seq_length) ==
    LET pad_length == max_seq_length - Len(tokens)
    IN  [tokens |-> tokens \o Zeros(pad_length),
         position_ids |->
             position_ids \o RepeatEach(ZerosLike(LastSlice(position_ids)), pad_length),
         \* np.pad(..., ((0, pad_length),), constant_values=0); the mask is
         \* modelled with one axis, np.pad appends pad_length zeros on each axis
         attention_mask |-> attention_mask \o Zeros(pad_length)]

(***************************************************************************)
(* collate_fn (both variants)                                              *)
(***************************************************************************)
\* faulty variant: always goes to the next multiple, max // TILE * TILE + TILE
LengthToPadMutantNext(spls) ==
    (MaxOf([i \in 1..Len(spls) |-> Len(spls[i].token)]) \div TILE + 1) * TILE

\* (max(map(lambda spl: len(spl["token"]), samples)) + TILE - 1) // TILE * TILE
LengthToPad(spls) ==
    ((MaxOf([i \in 1..Len(spls) |-> Len(spls[i].token)]) + TILE - 1) \div TILE) * TILE

Padded(spls) ==
    [i \in 1..Len(spls) |->
        pad_batch(spls[i].token, spls[i].position_id, spls[i].attention_mask,
                  LengthToPad(spls))]

\* torch.tensor(attention_mask, dtype=int64) < 0.5
BelowHalf(mask) == [i \in 1..Len(mask) |-> 2 * mask[i] < 1]

Gen_collate(spls) ==
    LET p == Padded(spls)
    IN  [tokens |-> [i \in 1..Len(spls) |-> p[i].tokens],
         position_ids |-> [i \in 1..Len(spls) |-> p[i].position_ids],
         attention_mask |-> [i \in 1..Len(spls) |-> BelowHalf(p[i].attention_mask)],
         context_length |-> [i \in 1..Len(spls) |-> spls[i].context_length],
         target_position_ids |-> [i \in 1..Len(spls) |-> spls[i].target_position_id]]

MC_collate(spls, flag) ==
    LET p == Padded(spls)
    IN  [tokens |-> [i \in 1..Len(spls) |-> p[i].tokens],
         position_ids |-> [i \in 1..Len(spls) |-> p[i].position_ids],
         attention_mask |-> [i \in 1..Len(spls) |-> BelowHalf(p[i].attention_mask)],
         choices |-> [i \in 1..Len(spls) |-> spls[i].choices],
         choice_target_ids |-> [i \in 1..Len(spls) |-> spls[i].choice_target_ids],
         is_single_token |-> flag]

(***************************************************************************)
(* Materialized samples, as the model's sample builders return them: the   *)
(* builders append sentinel tokens to the text, so a sample is never empty,*)
(* and position_id has one entry per token.                                *)
(***************************************************************************)
BuiltTokens(n) == [i \in 1..n |-> i]

\* np.arange(n)
BuiltPositions(n) == [i \in 1..n |-> i - 1]

BuiltGenSample(n) ==
    [token |-> BuiltTokens(n), position_id |-> BuiltPositions(n),
     attention_mask |-> [i \in 1..n |-> 1],
     context_length |-> n, target_position_id |-> <<n>>]

BuiltMCSample(n) ==
    [token |-> BuiltTokens(n), position_id |-> BuiltPositions(n),
     attention_mask |-> [i \in 1..n |-> 1],
     choices |-> <<n>>, choice_target_ids |-> <<<<n>>>>]

GenSamples(maxlen) == {BuiltGenSample(n) : n \in 1..maxlen}

MCSamples(maxlen) == {BuiltMCSample(n) : n \in 1..maxlen}

\* the non-empty lists of at most k elements of S
Groups(S, k) == UNION {[1..m -> S] : m \in 1..k}

(***************************************************************************)
(* Batch assembly. collate_fn is a function of its argument (and, for the  *)
(* multi-choice variant, of the flag): the group of samples the loader     *)
(* hands over is drawn first, one call assembles it. The dataset is one    *)
(* built from an empty file, collate_fn never reads self.data.             *)
(***************************************************************************)
InitCollate ==
    /\ task \in {"gen", "mc"}
    /\ config = [max_seq_length |-> 0, max_gen_length |-> 0, generation_length |-> 0,
                 use_multitask_encoding |-> FALSE]
    /\ pc = "ready"
    /\ file = << >>
    /\ pos = 0
    /\ data = << >>
    /\ is_single_token = (task = "mc")
    /\ weights = << >>
    /\ left_weights = << >>
    /\ samples \in IF task = "gen" THEN Groups(GenSamples(MaxTokLen), MaxBatch)
                                   ELSE Groups(MCSamples(MaxTokLen), MaxBatch)
    /\ batch = << >>
    /\ result = [op |-> "none"]

\* GenerationTaskDataset.collate_fn
Gen_collate_fn ==
    /\ task = "gen"
    /\ pc = "ready"
    /\ samples # << >>
    /\ batch = << >>
    /\ batch' = Gen_collate(samples)
    /\ UNCHANGED <<task, config, pc, file, pos, data, is_single_token, weights,
                   left_weights, samples, result>>

\* MultiChoiceTaskDataset.collate_fn
MC_collate_fn ==
    /\ task = "mc"
    /\ pc = "ready"
    /\ samples # << >>
    /\ batch = << >>
    /\ batch' = MC_collate(samples, is_single_token)
    /\ UNCHANGED <<task, config, pc, file, pos, data, is_single_token, weights,
                   left_weights, samples, result>>

NextCollate ==
    \/ Gen_collate_fn
    \/ MC_collate_fn

SpecCollate == InitCollate /\ [][NextCollate]_vars

(***************************************************************************)
(* Properties of batch assembly.                                           *)
(***************************************************************************)
Collated == batch # << >>

\* the position ids that pad_batch appended to row i
AppendedPositions(i) ==
    SubSeq(batch.position_ids[i], Len(samples[i].position_id) + 1,
           Len(batch.position_ids[i]))

OriginalPositionsKept(i) ==
    SubSeq(batch.position_ids[i], 1, Len(samples[i].position_id)) = samples[i].position_id

LastPosition(i) == samples[i].position_id[Len(samples[i].position_id)]

\* C1 as stated: every position id appended to an item equals the item's last
\* real position value p, and the original position ids are unchanged.
C1_PadRepeatsLastPosition ==
    Collated =>
        \A i \in 1..Len(samples) :
            /\ OriginalPositionsKept(i)
            /\ \A j \in 1..Len(AppendedPositions(i)) :
                   AppendedPositions(i)[j] = LastPosition(i)

\* C1 amended: every position id appended to an item is 0, whatever the item's
\* last real position value is; there is one per pad slot and the original
\* position ids are unchanged.
C1_PadPositionsAreZero ==
    Collated =>
        \A i \in 1..Len(samples) :
            /\ OriginalPositionsKept(i)
            /\ Len(AppendedPositions(i)) = Len(batch.tokens[i]) - Len(samples[i].token)
            /\ \A j \in 1..Len(AppendedPositions(i)) : AppendedPositions(i)[j] = 0

\* an item with a non-zero last position value was padded by at least one slot
C1_Witness ==
    /\ Collated
    /\ \E i \in 1..Len(samples) :
        /\ LastPosition(i) # 0
        /\ Len(AppendedPositions(i)) >= 1

LongestSample == MaxOf([i \in 1..Len(samples) |-> Len(samples[i].token)])

\* C6: every row of tokens, position_ids and attention_mask of a batch has the
\* same length, the smallest multiple of 32 that is >= the longest sample.
C6_TileAlignedLength ==
    Collated =>
        \E T \in 0..(LongestSample + TILE) :
            /\ T % TILE = 0
            /\ T >= LongestSample
            /\ T - TILE < LongestSample
            /\ \A i \in 1..Len(samples) :
                /\ Len(batch.tokens[i]) = T
                /\ Len(batch.position_ids[i]) = T
                /\ Len(batch.attention_mask[i]) = T

\* a group whose longest sample is exactly 32 long, with a shorter one beside it
C6_Witness ==
    /\ Collated
    /\ LongestSample = TILE
    /\ \E i \in 1..Len(samples) : Len(samples[i].token) < TILE
    /\ \A i \in 1..Len(samples) : Len(batch.tokens[i]) = TILE

(***************************************************************************)
(* EvaluationDataset: what the three datasets share.                       *)
(***************************************************************************)
\* the texts of at most n tokens over the alphabet A
Texts(A, n) == UNION {[1..m -> A] : m \in 0..n}

\* the files of at most k lines, each line an item of I
Files(I, k) == UNION {[1..m -> I] : m \in 0..k}

\* x in text
Contains(text, x) == \E i \in 1..Len(text) : text[i] = x

\* if len(text) + reserved + 2 > max_seq_length:
\*     text_length = max_seq_length - reserved - 2
\*     text = text[len(text) - text_length : len(text)]
Truncate(text, reserved, max_seq_length) ==
    IF Len(text) + reserved + 2 > max_seq_length
    THEN LET text_length == max_seq_length - reserved - 2
         IN  PySlice(text, Len(text) - text_length, Len(text))
    ELSE text

\* EvaluationDataset.__init__ returns: every line of every file is processed
init_done ==
    /\ task \in {"gen", "mc"}
    /\ pc = "init"
    /\ pos = Len(file)
    /\ pc' = "ready"
    /\ UNCHANGED <<task, config, file, pos, data, is_single_token, weights,
                   left_weights, samples, batch, result>>

(***************************************************************************)
(* GenerationTaskDataset                                                   *)
(***************************************************************************)
\* the "targets" of a record: one flat list of ids, or a list of such lists
GenTargets ==
    {[nested |-> FALSE, ids |-> << >>], [nested |-> FALSE, ids |-> <<8, 9>>],
     [nested |-> TRUE, ids |-> <<<<8>>, <<9>>>>]}

GenItems == [inputs : Texts({1, 2}, MaxTextLen), targets : GenTargets]

\* if len(targets) and (not isinstance(targets[0], list)): targets = [targets]
WrapTargets(targets) ==
    IF Len(targets.ids) # 0 /\ ~targets.nested THEN <<targets.ids>> ELSE targets.ids

Gen_process(item, cfg) ==
    [text |-> Truncate(item.inputs, cfg.max_gen_length, cfg.max_seq_length),
     targets |-> WrapTargets(item.targets)]

InitGen ==
    /\ task = "gen"
    /\ config \in [max_seq_length : 2..MaxSeqLength, max_gen_length : 0..MaxGenLength,
                   generation_length : {0}, use_multitask_encoding : {FALSE}]
    /\ pc = "init"
    /\ file \in Files(GenItems, MaxLines)
    /\ pos = 0
    /\ data = << >>
    /\ is_single_token = FALSE
    /\ weights = << >>
    /\ left_weights = << >>
    /\ samples = << >>
    /\ batch = << >>
    /\ result = [op |-> "none"]

\* one iteration of process_single_file: self.data.extend(self.process_single_item(item))
Gen_process_single_item ==
    /\ task = "gen"
    /\ pc = "init"
    /\ pos < Len(file)
    /\ data' = data \o <<Gen_process(file[pos + 1], config)>>
    /\ pos' = pos + 1
    /\ UNCHANGED <<task, config, pc, file, is_single_token, weights, left_weights,
                   samples, batch, result>>

\* GenerationTaskDataset.__getitem__: the arguments of build_generation_sample
Gen_getitem_call ==
    /\ task = "gen"
    /\ pc = "ready"
    /\ \E idx \in 0..(Len(data) - 1) :
        result' = [op |-> "getitem", arg |-> idx, text |-> data[idx + 1].text,
                   max_gen_length |-> config.max_gen_length]
    /\ UNCHANGED <<task, config, pc, file, pos, data, is_single_token, weights,
                   left_weights, samples, batch>>

NextGen ==
    \/ Gen_process_single_item
    \/ init_done
    \/ Gen_getitem_call

SpecGen == InitGen /\ [][NextGen]_vars

(***************************************************************************)
(* MultiChoiceTaskDataset                                                  *)
(***************************************************************************)
\* input texts: empty, plain, with [MASK] last and with [MASK] first
MCTexts ==
    {<< >>, <<7, 8, 9>>, <<7, MaskId>>, <<MaskId, 7>>}

\* choice lists: one-token choices, multi-token choices, and a list holding an
\* empty choice
MCChoices ==
    {<<<<1>>>>, <<<<1>>, <<2>>>>, <<<<1, 2>>, <<3>>>>, <<<<1, 2>>, << >>>>}

MCItems == [inputs : MCTexts, choices : MCChoices, label : {0}]

\* sum([len(choice) for choice in choices])
RECURSIVE SumLen(_)
SumLen(choices) ==
    IF Len(choices) = 0 THEN 0 ELSE Len(choices[1]) + SumLen(Tail(choices))

\* tgt_seq_length = sum(...); if tgt_seq_length == len(choices): tgt_seq_length = 1
TgtSeqLength(choices) ==
    IF SumLen(choices) = Len(choices) THEN 1 ELSE SumLen(choices)

\* faulty variant: self.is_single_token = (tgt_seq_length == 1)
UpdateFlagMutantAssign(flag, tgt_seq_length) == tgt_seq_length = 1

\* if tgt_seq_length != 1: self.is_single_token = False
UpdateFlag(flag, tgt_seq_length) == IF tgt_seq_length # 1 THEN FALSE ELSE flag

\* process_single_item: "AssertionError" or the sample and the flag it leaves
MC_process(item, cfg, flag) ==
    LET tgt_seq_length == TgtSeqLength(item.choices)
        text == Truncate(item.inputs, tgt_seq_length, cfg.max_seq_length)
    IN  IF ~(tgt_seq_length < cfg.max_seq_length)
        THEN [outcome |-> "AssertionError"]
        ELSE IF Contains(text, MaskId) /\ cfg.use_multitask_encoding
        THEN [outcome |-> "AssertionError"]
        ELSE [outcome |-> "ok",
              sample |-> [text |-> text, choices |-> item.choices, label |-> item.label],
              flag |-> UpdateFlag(flag, tgt_seq_length)]

\* __init__ sets is_single_token before it reads the files; max_seq_length has
\* room for the two sentinel tokens and one target token at least
InitMC ==
    /\ task = "mc"
    /\ config \in [max_seq_length : 3..MaxSeqLength, max_gen_length : {0},
                   generation_length : {0}, use_multitask_encoding : BOOLEAN]
    /\ pc = "init"
    /\ file \in Files(MCItems, MaxLines)
    /\ pos = 0
    /\ data = << >>
    /\ is_single_token = TRUE
    /\ weights = << >>
    /\ left_weights = << >>
    /\ samples = <<BuiltMCSample(1), BuiltMCSample(2)>>
    /\ batch = << >>
    /\ result = [op |-> "none"]

\* one iteration of process_single_file; an AssertionError leaves __init__
MC_process_single_item ==
    /\ task = "mc"
    /\ pc = "init"
    /\ pos < Len(file)
    /\ LET r == MC_process(file[pos + 1], config, is_single_token)
       IN  IF r.outcome = "ok"
           THEN /\ data' = data \o <<r.sample>>
                /\ is_single_token' = r.flag
                /\ pos' = pos + 1
                /\ pc' = pc
           ELSE /\ pc' = "failed"
                /\ UNCHANGED <<data, is_single_token, pos>>
    /\ UNCHANGED <<task, config, file, weights, left_weights, samples, batch, result>>

\* MultiChoiceTaskDataset.__getitem__: the arguments of build_multiple_choice_sample
MC_getitem_call ==
    /\ task = "mc"
    /\ pc = "ready"
    /\ \E idx \in 0..(Len(data) - 1) :
        result' = [op |-> "getitem", arg |-> idx, text |-> data[idx + 1].text,
                   choices |-> data[idx + 1].choices,
                   is_single_token |-> is_single_token,
                   unified_multitask_encoding |-> config.use_multitask_encoding]
    /\ UNCHANGED <<task, config, pc, file, pos, data, is_single_token, weights,
                   left_weights, samples, batch>>

NextMC ==
    \/ MC_process_single_item
    \/ init_done
    \/ MC_getitem_call
    \/ MC_collate_fn

SpecMC == InitMC /\ [][NextMC]_vars

(***************************************************************************)
(* LanguageModelTaskDataset                                                *)
(***************************************************************************)
\* math.ceil(a / b) for a >= 0, b > 0
CeilDiv(a, b) == (a + b - 1) \div b

\* list(accumulate(xs))
RECURSIVE Accumulate(_)
Accumulate(xs) ==
    IF Len(xs) = 0 THEN << >>
    ELSE LET front == Accumulate(SubSeq(xs, 1, Len(xs) - 1))
         IN  Append(front, (IF Len(front) = 0 THEN 0 ELSE front[Len(front)]) + xs[Len(xs)])

\* bisect_right(a, x): the loop of the bisect module, on the interval [lo, hi)
RECURSIVE BisectLoop(_, _, _, _)
BisectLoop(a, x, lo, hi) ==
    IF lo < hi
    THEN LET mid == (lo + hi) \div 2
         IN  IF x < a[mid + 1] THEN BisectLoop(a, x, lo, mid)
                               ELSE BisectLoop(a, x, mid + 1, hi)
    ELSE lo

bisect_right(a, x) == BisectLoop(a, x, 0, Len(a))

\* faulty variant: the + 1 is left out
NumSequencesMutantNoExtra(n, cfg) ==
    Max2(CeilDiv(Max2(n - (cfg.max_seq_length - 1), 0), cfg.generation_length), 1)

\* max(math.ceil(max(len(tokens) - (max_seq_length - 1), 0) / generation_length) + 1, 1)
NumSequences(n, cfg) ==
    Max2(CeilDiv(Max2(n - (cfg.max_seq_length - 1), 0), cfg.generation_length) + 1, 1)

\* the tokenized text of the d-th path: L tokens, told apart by document
Document(d, L) == [i \in 1..L |-> 100 * d + i]

Documents(k, maxlen) ==
    UNION {{[d \in 1..m |-> Document(d, lens[d])] : lens \in [1..m -> 0..maxlen]} : m \in 1..k}

\* one slot of max_seq_length is kept for [gMASK]: a window holds
\* max_seq_length - 1 >= 1 tokens; generation_length divides, so it is >= 1
InitLM ==
    /\ task = "lm"
    /\ config \in [max_seq_length : 2..MaxSeqLength, max_gen_length : {0},
                   generation_length : 1..MaxGenLength, use_multitask_encoding : {FALSE}]
    /\ pc = "init"
    /\ file \in Documents(MaxDocs, MaxDocLen)
    /\ pos = 0
    /\ data = << >>
    /\ is_single_token = FALSE
    /\ weights = << >>
    /\ left_weights = << >>
    /\ samples = << >>
    /\ batch = << >>
    /\ result = [op |-> "none"]

\* one iteration of "for p in self.path: self.process_single_file(p)"
\* (num_original_tokens is carried to the scorer and is not modelled)
LM_process_single_file ==
    /\ task = "lm"
    /\ pc = "init"
    /\ pos < Len(file)
    /\ LET tokens == file[pos + 1]
           entry == [raw_text |-> tokens, num_sequences |-> NumSequences(Len(tokens), config)]
           num_sequences == <<entry.num_sequences>>
           w == Accumulate(num_sequences)
       IN  /\ data' = Append(data, entry)
           /\ weights' = w
           /\ left_weights' = <<0>> \o PySlice(w, 0, -1)
    /\ pos' = pos + 1
    /\ UNCHANGED <<task, config, pc, file, is_single_token, samples, batch, result>>

\* EvaluationDataset.__init__ returns
LM_init_done ==
    /\ task = "lm"
    /\ pc = "init"
    /\ pos = Len(file)
    /\ pc' = "ready"
    /\ UNCHANGED <<task, config, file, pos, data, is_single_token, weights,
                   left_weights, samples, batch, result>>

\* LanguageModelTaskDataset.__len__
LM_len == data[1].num_sequences

LM_len_call ==
    /\ task = "lm"
    /\ pc = "ready"
    /\ result' = [op |-> "len", value |-> LM_len]
    /\ UNCHANGED <<task, config, pc, file, pos, data, is_single_token, weights,
                   left_weights, samples, batch>>

\* LanguageModelTaskDataset.__getitem__, up to the call of
\* build_language_model_sample, whose arguments it returns
LM_getitem(idx0) ==
    LET document_idx == bisect_right(weights, idx0)
    IN  IF document_idx >= Len(left_weights)
        THEN [op |-> "getitem", arg |-> idx0, outcome |-> "IndexError"]
        ELSE LET idx == idx0 - left_weights[document_idx + 1]
                 start_idx == idx * config.generation_length
                 end_idx == start_idx + config.max_seq_length - 1
             IN  [op |-> "getitem", arg |-> idx0, outcome |-> "ok",
                  document_idx |-> document_idx, idx |-> idx,
                  start_idx |-> start_idx, end_idx |-> end_idx,
                  tokens |-> PySlice(data[document_idx + 1].raw_text, start_idx, end_idx),
                  is_first_segment |-> (idx = 0)]

\* the windows of all documents, the flat index space of the dataset
TotalWindows == Accumulate([i \in 1..Len(data) |-> data[i].num_sequences])[Len(data)]

LM_getitem_call ==
    /\ task = "lm"
    /\ pc = "ready"
    /\ \E idx \in 0..(TotalWindows - 1) : result' = LM_getitem(idx)
    /\ UNCHANGED <<task, config, pc, file, pos, data, is_single_token, weights,
                   left_weights, samples, batch>>

NextLM ==
    \/ LM_process_single_file
    \/ LM_init_done
    \/ LM_len_call
    \/ LM_getitem_call

SpecLM == InitLM /\ [][NextLM]_vars

(***************************************************************************)
(* The whole program: any of the datasets.                                 *)
(***************************************************************************)
Init == InitCollate \/ InitGen \/ InitMC \/ InitLM

Next == NextCollate \/ NextGen \/ NextMC \/ NextLM

Spec == Init /\ [][Next]_vars

(***************************************************************************)
(* Properties of the window index.                                         *)
(***************************************************************************)
\* n_0 + ... + n_(d-1): the windows of the documents before document d (0-based)
WindowsBefore(d) ==
    IF d = 0 THEN 0 ELSE Accumulate([i \in 1..d |-> data[i].num_sequences])[d]

\* C2 as stated: a flat index f with n_0+...+n_(d-1) <= f < n_0+...+n_d is
\* resolved by __getitem__ to document d and local index f - (n_0+...+n_(d-1)),
\* is_first_segment being true exactly for local index 0.
C2_FlatIndexResolves ==
    (pc = "ready" /\ result.op = "getitem") =>
        \A d \in 0..(Len(data) - 1) :
            (WindowsBefore(d) <= result.arg /\ result.arg < WindowsBefore(d + 1)) =>
                /\ result.outcome = "ok"
                /\ result.document_idx = d
                /\ result.idx = result.arg - WindowsBefore(d)
                /\ result.is_first_segment = (result.arg = WindowsBefore(d))

\* C3 as stated: after construction there is one cumulative entry per document,
\* cumulative[i] = num_windows[0] + ... + num_windows[i] (non-decreasing), and
\* __len__ returns cumulative[last], the number of windows of all documents.
C3_CumulativeIndexAndLength ==
    (task = "lm" /\ pc = "ready") =>
        /\ Len(weights) = Len(data)
        /\ \A i \in 1..Len(weights) : weights[i] = WindowsBefore(i)
        /\ \A i \in 1..(Len(weights) - 1) : weights[i] <= weights[i + 1]
        /\ Len(left_weights) = Len(data)
        /\ LM_len = weights[Len(weights)]
        /\ LM_len = TotalWindows
        /\ (result.op = "len" => result.value = TotalWindows)

SingleDocumentReady == task = "lm" /\ pc = "ready" /\ Len(data) = 1

\* token positions [0, L) of the only document lying in some window's [start, end)
WindowsCover ==
    \A t \in 0..(Len(data[1].raw_text) - 1) :
        \E i \in 0..(LM_len - 1) :
            /\ LM_getitem(i).outcome = "ok"
            /\ LM_getitem(i).document_idx = 0
            /\ LM_getitem(i).start_idx <= t
            /\ t < LM_getitem(i).end_idx
            /\ \E k \in 1..Len(LM_getitem(i).tokens) :
                   LM_getitem(i).tokens[k] = data[1].raw_text[t + 1]

TokensOf(w) == {w.tokens[k] : k \in 1..Len(w.tokens)}

\* consecutive windows share exactly max_seq_length - 1 - generation_length
\* tokens when that value is positive
WindowsOverlap ==
    (config.max_seq_length - 1 - config.generation_length > 0) =>
        \A i \in 0..(LM_len - 2) :
            /\ LM_getitem(i).end_idx - LM_getitem(i + 1).start_idx
                   = config.max_seq_length - 1 - config.generation_length
            /\ Cardinality(TokensOf(LM_getitem(i)) \cap TokensOf(LM_getitem(i + 1)))
                   = config.max_seq_length - 1 - config.generation_length

\* C4 as stated: for a single document the windows i in [0, num_windows) cover
\* every token position in [0, L), and consecutive windows overlap by exactly
\* max_seq_length - 1 - generation_length tokens when that value is positive.
C4_WindowsCoverDocument ==
    SingleDocumentReady => (WindowsCover /\ WindowsOverlap)

\* C4 amended: the same, provided generation_length <= max_seq_length - 1 (the
\* stride does not exceed the window size).
C4_WindowsCoverWhenStrideFits ==
    (SingleDocumentReady /\ config.generation_length <= config.max_seq_length - 1) =>
        (WindowsCover /\ WindowsOverlap)

\* a document needing at least three overlapping windows, the last one read
C4_Witness ==
    /\ SingleDocumentReady
    /\ config.generation_length < config.max_seq_length - 1
    /\ LM_len >= 3
    /\ result.op = "getitem"
    /\ result.arg = LM_len - 1
    /\ result.outcome = "ok"
    /\ Len(result.tokens) > 0

(***************************************************************************)
(* Properties of expansion.                                                *)
(***************************************************************************)
\* the last k tokens of text, in their order
LastTokens(text, k) == [j \in 1..k |-> text[Len(text) - k + j]]

\* the suffix rule for one record: input text, stored text, reserved length
SuffixRule(input, stored, reserved) ==
    IF Len(input) + reserved + 2 > config.max_seq_length
    THEN /\ Len(stored) = config.max_seq_length - reserved - 2
         /\ stored = LastTokens(input, config.max_seq_length - reserved - 2)
    ELSE stored = input

\* C5 as stated: whenever len(text) + max_gen_length + 2 > max_seq_length the
\* stored text is exactly the last max_seq_length - max_gen_length - 2 tokens of
\* the input, in order, and otherwise the input unchanged; multi-choice records
\* follow the same rule with tgt_seq_length in place of max_gen_length.
C5_SuffixTruncation ==
    /\ task = "gen" =>
           \A i \in 1..Len(data) :
               SuffixRule(file[i].inputs, data[i].text, config.max_gen_length)
    /\ task = "mc" =>
           \A i \in 1..Len(data) :
               SuffixRule(file[i].inputs, data[i].text, TgtSeqLength(file[i].choices))

\* C10 as stated: every stored sample fits the sequence budget,
\* len(text) + tgt_seq_length + 2 <= max_seq_length for multi-choice samples and
\* len(text) + max_gen_length + 2 <= max_seq_length for generation samples.
C10_StoredSampleFitsBudget ==
    /\ task = "mc" =>
           \A i \in 1..Len(data) :
               Len(data[i].text) + TgtSeqLength(data[i].choices) + 2
                   <= config.max_seq_length
    /\ task = "gen" =>
           \A i \in 1..Len(data) :
               Len(data[i].text) + config.max_gen_length + 2 <= config.max_seq_length

HasMultiTokenChoice(choices) == \E c \in 1..Len(choices) : Len(choices[c]) > 1

AllChoicesOneToken(choices) == \A c \in 1..Len(choices) : Len(choices[c]) = 1

\* C8 as stated: after construction is_single_token is false whenever any choice
\* of any record has more than one token, and the target length of a record is
\* collapsed to 1 only when every one of its choices is exactly one token long.
C8_FlagFalseOnMultiTokenChoice ==
    (task = "mc" /\ pc = "ready") =>
        /\ (\E i \in 1..Len(data) : HasMultiTokenChoice(data[i].choices))
               => is_single_token = FALSE
        /\ \A i \in 1..Len(data) :
               TgtSeqLength(data[i].choices) # SumLen(data[i].choices)
                   => AllChoicesOneToken(data[i].choices)

\* C9 as stated: with unified multitask encoding requested, a record whose input
\* text contains mask_id makes process_single_item fail, so no sample of such a
\* record is in the dataset, truncated or not.
C9_MaskedTextIsRejected ==
    (task = "mc" /\ config.use_multitask_encoding) =>
        /\ Len(data) = pos
        /\ \A i \in 1..pos : ~Contains(file[i].inputs, MaskId)

\* the orders in which the lines of the file can be processed
Orders ==
    {p \in [1..Len(file) -> 1..Len(file)] : \A i, j \in 1..Len(file) : p[i] = p[j] => i = j}

\* the flag after the records of f were expanded one after the other
RECURSIVE FlagAfter(_)
FlagAfter(f) ==
    IF Len(f) = 0 THEN TRUE
    ELSE UpdateFlag(FlagAfter(SubSeq(f, 1, Len(f) - 1)), TgtSeqLength(f[Len(f)].choices))

SomeRecordNotSingle == \E i \in 1..pos : TgtSeqLength(file[i].choices) # 1

FlagState ==
    /\ (pc = "init" /\ pos = 0) => is_single_token = TRUE
    /\ SomeRecordNotSingle =>
           /\ is_single_token = FALSE
           /\ result.op = "getitem" => result.is_single_token = FALSE
           /\ Collated => batch.is_single_token = FALSE
    /\ pc = "ready" =>
           \A p \in Orders : is_single_token = FlagAfter([i \in 1..Len(file) |-> file[p[i]]])

\* C7: is_single_token starts true, only ever changes from true to false, is
\* false for every __getitem__ and collate_fn call that follows a record with
\* tgt_seq_length != 1, and ends the same for every processing order of the
\* records.
C7_FlagMonotoneOrderFree ==
    /\ []FlagState
    /\ [][is_single_token = FALSE => is_single_token' = FALSE]_vars

\* a multi-token record was followed by a single-token one, and both a
\* __getitem__ and a collate_fn call came after construction
C7_Witness ==
    /\ task = "mc"
    /\ pc = "ready"
    /\ Len(file) = 2
    /\ TgtSeqLength(file[1].choices) # 1
    /\ TgtSeqLength(file[2].choices) = 1
    /\ is_single_token = FALSE
    /\ result.op = "getitem"
    /\ result.is_single_token = FALSE
    /\ Collated
    /\ batch.is_single_token = FALSE

====
